---- MODULE Spec2Model ----
(***************************************************************************)
(* JSDataLinker: the Firestore, RealTime and Authentication wrappers over  *)
(* the Firebase SDK, as state machines over the stores they delegate to.   *)
(* A call of a wrapper method is one action per await of the method; the   *)
(* completion of the call (the value the promise resolves to, or the       *)
(* exception it rejects with) is recorded in res.  The three wrappers hold  *)
(* no state in common (each delegates to a store of its own), so a         *)
(* behaviour exercises one of them, chosen when it starts; a behaviour of  *)
(* the Firestore wrapper is the calls on the instances constructed with    *)
(* one nestedPaths array, which address one collection.                    *)
(***************************************************************************)
EXTENDS Integers, Sequences, FiniteSets, TLC

\* ------------------------------------------------------------------ bounds

\* Longest nestedPaths array getNestedCollectionReference is applied to.
MaxLen == 4
\* Longest nestedPaths array of an instance that calls the document store.
MaxStoreLen == 2
\* Most Firestore.create calls suspended between their two awaits.
MaxInFlight == 2
\* Most keys push generates in the Realtime Database path.
MaxKeys == 2
\* Most users the authentication service holds.
MaxUsers == 3

\* ------------------------------------------------------------------ values

\* The collection name every Firestore instance here is constructed with.
CollectionName == "c"
\* Document ids, in the store's enumeration order (ascending by id).
IdOrder == <<"d1", "d2">>
IdSet == {IdOrder[i] : i \in 1..Len(IdOrder)}
\* Sub-collection names.
SubNames == {"s1"}
\* JavaScript null / undefined, as an absent uid.
Null == "null"
\* Field names and field values of a record.
Fields == {"a", "b"}
Vals == {"v1", "v2"}
\* A record: a mapping from some of the field names to values.
RecordsOver(V) == UNION {[F -> V] : F \in SUBSET Fields}
Records == RecordsOver(Vals)
EmptyRecord == << >>
\* The records create is called with, and the patches update is called with.
CreateData == {r \in Records : "a" \in DOMAIN r /\ \A f \in DOMAIN r : r[f] = "v1"}
PatchData == {r \in Records : DOMAIN r = {"a"} /\ r["a"] = "v2"}

\* JavaScript undefined, as a field's value.
Undefined == "undefined"
\* The objects RealTime.create and RealTime.update are called with.
RtData == RecordsOver({"v1", Undefined}) \ {EmptyRecord}

\* Messages.
MsgUndefined == "Data contains undefined values"
MsgSetUndefined == "set failed: value argument contains undefined"
MsgAuth == "auth error"
MsgNotExist == "Document does not exist"
MsgService == "service call failed"
MsgTypeError == "TypeError: not a function"
MsgNotFound == "NOT_FOUND: No document to update"

\* The completion of an async call: the promise resolves to a two-element
\* array [ok, payload], resolves to some other value, or rejects.
Pair(ok, payload) == [kind |-> "pair", ok |-> ok, payload |-> payload]
Value(payload) == [kind |-> "value", payload |-> payload]
Throw(msg) == [kind |-> "throw", msg |-> msg]
\* Payloads, tagged by what they hold.
PId(id) == [id |-> id]
PMsg(m) == [msg |-> m]
PRec(r) == [rec |-> r]
PNaN == [nan |-> TRUE]
PBool(b) == [bool |-> b]
PList(s) == [list |-> s]
PMap(m) == [map |-> m]
PRef(r) == [ref |-> r]

\* --------------------------------------------------------------- variables

VARIABLES
    wrapper,    \* the wrapper class this behaviour exercises
    nestedPaths, \* Firestore: this.nestedPaths of the instances called
    store,      \* Firestore: document path (sequence of segments) -> record
    pending,    \* Firestore.create calls between docRef.set and the lookup
    rt,         \* RealTime: key index -> value of the child of itemsRef
    nextKey,    \* RealTime: index of the key the next push generates
    users,      \* Authentication: the uids the service holds
    res,        \* the last completed call: [op, inst, out]
    track       \* a successful write the caller follows up on, while no
                \* later write has touched the same document

vars == <<wrapper, nestedPaths, store, pending, rt, nextKey, users, res, track>>
fsVars == <<store, pending>>
rtVars == <<rt, nextKey>>

\* ------------------------------------------------- Firestore SDK references

\* A CollectionReference or DocumentReference of the admin SDK, or the
\* TypeError raised by calling a method the reference's class does not have.
ColRef(path) == [kind |-> "collection", path |-> path]
DocRef(path) == [kind |-> "document", path |-> path]
RefError == [kind |-> "TypeError", path |-> << >>]

\* ref.doc(id): a method of CollectionReference only.
SdkDoc(ref, id) ==
    IF ref.kind = "collection" THEN DocRef(Append(ref.path, id)) ELSE RefError

\* ref.collection(name): a method of DocumentReference only.
SdkCollection(ref, name) ==
    IF ref.kind = "document" THEN ColRef(Append(ref.path, name)) ELSE RefError

\* ------------------------------------------------------ Firestore instances

\* new Firestore(collectionName, uid, nestedPaths)
FsInstance(uid, np) == [collectionName |-> CollectionName, uid |-> uid, nestedPaths |-> np]

\* nestedPaths arrays: alternating document id, sub-collection name.
SegAt(i) == IF i % 2 = 1 THEN IdSet ELSE SubNames
NestedPathsOfLen(n) == {s \in [1..n -> IdSet \cup SubNames] : \A i \in 1..n : s[i] \in SegAt(i)}
NestedPathSet == UNION {NestedPathsOfLen(n) : n \in 0..MaxLen}
\* The nestedPaths arrays of the instances that call the store.
StorePathSet ==
    {np \in NestedPathSet : /\ Len(np) <= MaxStoreLen
                            /\ \A i \in 1..Len(np) : i % 2 = 1 => np[i] = IdOrder[1]}
\* The instances of a behaviour; create does not read this.uid.
FsInstances == {FsInstance(u, nestedPaths) : u \in IdSet \cup {Null}}
CreateInstances == {FsInstance(Null, nestedPaths)}

\* The loop with the two segments of a pair taken in the wrong order.
RECURSIVE NestedLoopSwapped(_, _, _)
NestedLoopSwapped(collectionRef, np, i) ==
    IF ~(i < Len(np)) THEN collectionRef
    ELSE IF Len(np) > i + 1
         THEN NestedLoopSwapped(SdkCollection(SdkDoc(collectionRef, np[i + 2]), np[i + 1]), np, i + 2)
         ELSE NestedLoopSwapped(SdkDoc(collectionRef, np[i + 1]), np, i + 2)

\* The for loop of getNestedCollectionReference from index i (0-based) on.
RECURSIVE NestedLoop(_, _, _)
NestedLoop(collectionRef, np, i) ==
    IF ~(i < Len(np)) THEN collectionRef
    ELSE IF Len(np) > i + 1
         THEN NestedLoop(SdkCollection(SdkDoc(collectionRef, np[i + 1]), np[i + 2]), np, i + 2)
         ELSE NestedLoop(SdkDoc(collectionRef, np[i + 1]), np, i + 2)

\* getNestedCollectionReference(uid): autoId is the id doc() generates.
GetNestedCollectionReference(inst, uid, autoId) ==
    LET collectionRef == NestedLoop(ColRef(<<inst.collectionName>>), inst.nestedPaths, 0)
    IN  IF uid # Null THEN SdkDoc(collectionRef, uid) ELSE SdkDoc(collectionRef, autoId)

\* ------------------------------------------------------- the document store

Exists(st, path) == path \in DOMAIN st
\* docRef.set(data): creates or overwrites the document.
StoreSet(st, path, data) == [p \in DOMAIN st \cup {path} |-> IF p = path THEN data ELSE st[p]]
\* docRef.update(data): a partial merge into the stored record.
Merge(old, data) ==
    [f \in DOMAIN old \cup DOMAIN data |-> IF f \in DOMAIN data THEN data[f] ELSE old[f]]
StoreUpdate(st, path, data) == [st EXCEPT ![path] = Merge(st[path], data)]
\* docRef.delete()
StoreDelete(st, path) == [p \in DOMAIN st \ {path} |-> st[p]]
\* The parent collection's path of a document path.
Parent(path) == SubSeq(path, 1, Len(path) - 1)
\* The ids of the documents of the collection at colPath, in enumeration order.
ChildIds(st, colPath) ==
    SelectSeq(IdOrder, LAMBDA id : Exists(st, Append(colPath, id)))

\* getDocumentIdByContent(docRef, data): the id of the first document, in
\* enumeration order, of docRef's collection whose content equals data;
\* Null when there is none.
FindIdByContent(st, docRef, data) ==
    LET matches == SelectSeq(ChildIds(st, Parent(docRef.path)),
                             LAMBDA id : st[Append(Parent(docRef.path), id)] = data)
    IN  IF matches = << >> THEN Null ELSE Head(matches)

\* ------------------------------------------------------ Firestore wrapper

Result(op, inst, out) == [op |-> op, inst |-> inst, out |-> out]
\* The completion of a create call, with the id its own set wrote.
CreateResult(inst, out, wrote) == [op |-> "create", inst |-> inst, out |-> out, wrote |-> wrote]
NoTrack == [op |-> "none"]

\* An id doc() can generate for a new document: one the collection lacks.
FreshId(st, inst, autoId) ==
    LET ref == GetNestedCollectionReference(inst, Null, autoId)
    IN  ref.kind = "document" => ~Exists(st, ref.path)

\* The document a tracked write addressed.
TrackPath(t) == t.doc
\* The caller follows up on the write `new`, or stays with the one it was
\* following when that one's document is not the one written now.
Follow(new, path) ==
    track' \in {new} \cup (IF track.op # "none" /\ TrackPath(track) # path THEN {track} ELSE {})
\* A write to path that the caller does not follow up on.
Touch(path) ==
    track' = IF track.op # "none" /\ TrackPath(track) = path THEN NoTrack ELSE track

\* getNestedCollectionReference(this.uid) or getNestedCollectionReference(),
\* as the methods call it, on its own.
FsResolve(inst, withUid, autoId) ==
    LET uid == IF withUid THEN inst.uid ELSE Null
        ref == GetNestedCollectionReference(inst, uid, autoId)
    IN  /\ wrapper = "Firestore"
        /\ res' = Result("resolve", FsInstance(uid, inst.nestedPaths),
                         IF ref.kind = "TypeError" THEN Throw(MsgTypeError)
                         ELSE Value(PRef(ref)))
        /\ UNCHANGED <<wrapper, nestedPaths, store, pending, rtVars, users, track>>

\* create(data), up to the end of `await docRef.set(data)`.
FsCreateSet(inst, data, autoId, fail) ==
    LET docRef == GetNestedCollectionReference(inst, Null, autoId)
    IN  /\ wrapper = "Firestore"
        /\ nestedPaths \in StorePathSet
        /\ FreshId(store, inst, autoId)
        /\ UNCHANGED <<wrapper, nestedPaths, rtVars, users>>
        /\ IF docRef.kind = "TypeError"
           THEN /\ res' = CreateResult(inst, Throw(MsgTypeError), Null)
                /\ UNCHANGED <<store, pending, track>>
           ELSE IF fail
           THEN /\ res' = CreateResult(inst, Throw(MsgService), Null)
                /\ UNCHANGED <<store, pending, track>>
           ELSE /\ Cardinality(pending) < MaxInFlight
                /\ store' = StoreSet(store, docRef.path, data)
                /\ pending' = pending \cup {[inst |-> inst, data |-> data, docRef |-> docRef]}
                /\ Touch(docRef.path)
                /\ UNCHANGED res

\* create that looks the id up under this.collection, not under docRef.
LookupRefRoot(call) == DocRef(<<call.inst.collectionName, call.docRef.path[Len(call.docRef.path)]>>)

\* The reference create hands to getDocumentIdByContent.
LookupRef(call) == call.docRef

\* create(data), from `await getDocumentIdByContent(docRef, data)` to return.
FsCreateLookup(call, fail) ==
    LET docID == FindIdByContent(store, LookupRef(call), call.data)
        wrote == call.docRef.path[Len(call.docRef.path)]
    IN  /\ wrapper = "Firestore"
        /\ call \in pending
        /\ pending' = pending \ {call}
        /\ UNCHANGED <<wrapper, nestedPaths, store, rtVars, users>>
        /\ IF fail
           THEN /\ res' = CreateResult(call.inst, Throw(MsgService), wrote)
                /\ UNCHANGED track
           ELSE /\ res' = CreateResult(call.inst, Pair(TRUE, PId(docID)), wrote)
                /\ IF docID = Null THEN UNCHANGED track
                   ELSE track' \in {track,
                                    [op |-> "create", data |-> call.data,
                                     doc |-> Append(Parent(call.docRef.path), docID),
                                     inst |-> FsInstance(docID, call.inst.nestedPaths)]}

\* The reference read, update and delete address.
UidRef(inst, autoId) == GetNestedCollectionReference(inst, inst.uid, autoId)

\* await ref.get(), then the test of docSnapshot.exists.
ReadAt(st, ref, fail) ==
    IF ref.kind = "TypeError" THEN Throw(MsgTypeError)
    ELSE IF fail THEN Throw(MsgService)
    ELSE IF ~Exists(st, ref.path) THEN Pair(FALSE, PMsg(MsgNotExist))
    ELSE Pair(TRUE, PRec(st[ref.path]))

\* read() that resolves its reference without this.nestedPaths.
FsReadOutcomeRoot(st, inst, autoId, fail) ==
    ReadAt(st, UidRef(FsInstance(inst.uid, << >>), autoId), fail)

\* read()
FsReadOutcome(st, inst, autoId, fail) ==
    ReadAt(st, UidRef(inst, autoId), fail)

FsRead(inst, autoId, fail) ==
    /\ wrapper = "Firestore"
    /\ nestedPaths \in StorePathSet
    /\ inst.uid = Null => FreshId(store, inst, autoId)
    /\ res' = Result("read", inst, FsReadOutcome(store, inst, autoId, fail))
    /\ UNCHANGED <<wrapper, nestedPaths, store, pending, rtVars, users, track>>

\* update(data) that calls set instead of update.
UpdateWriteSet(st, path, data) == StoreSet(st, path, data)

\* The store call of update(data).
UpdateWrite(st, path, data) == StoreUpdate(st, path, data)

\* update(data)
FsUpdate(inst, data, autoId, fail) ==
    LET ref == UidRef(inst, autoId)
    IN  /\ wrapper = "Firestore"
        /\ nestedPaths \in StorePathSet
        /\ inst.uid = Null => FreshId(store, inst, autoId)
        /\ UNCHANGED <<wrapper, nestedPaths, pending, rtVars, users>>
        /\ IF ref.kind = "TypeError"
           THEN /\ res' = Result("update", inst, Throw(MsgTypeError))
                /\ UNCHANGED <<store, track>>
           ELSE IF fail
           THEN /\ res' = Result("update", inst, Throw(MsgService))
                /\ UNCHANGED <<store, track>>
           ELSE IF ~Exists(store, ref.path)
           THEN /\ res' = Result("update", inst, Throw(MsgNotFound))
                /\ UNCHANGED <<store, track>>
           ELSE /\ store' = UpdateWrite(store, ref.path, data)
                /\ res' = Result("update", inst, Pair(TRUE, PNaN))
                /\ Follow([op |-> "update", data |-> data, doc |-> ref.path,
                           inst |-> inst, prev |-> store[ref.path]], ref.path)

\* delete() that addresses a generated id instead of this.uid.
DeleteWriteAuto(st, path) == st

\* The store call of delete().
DeleteWrite(st, path) == StoreDelete(st, path)

\* delete()
FsDelete(inst, autoId, fail) ==
    LET ref == UidRef(inst, autoId)
    IN  /\ wrapper = "Firestore"
        /\ nestedPaths \in StorePathSet
        /\ inst.uid = Null => FreshId(store, inst, autoId)
        /\ UNCHANGED <<wrapper, nestedPaths, pending, rtVars, users>>
        /\ IF ref.kind = "TypeError"
           THEN /\ res' = Result("delete", inst, Throw(MsgTypeError))
                /\ UNCHANGED <<store, track>>
           ELSE IF fail
           THEN /\ res' = Result("delete", inst, Throw(MsgService))
                /\ UNCHANGED <<store, track>>
           ELSE /\ store' = DeleteWrite(store, ref.path)
                /\ res' = Result("delete", inst, Pair(TRUE, PNaN))
                /\ IF inst.uid = Null THEN UNCHANGED track
                   ELSE Follow([op |-> "delete", doc |-> ref.path, inst |-> inst,
                                had |-> Exists(store, ref.path)], ref.path)

\* readPaths(): listDocuments is a method of CollectionReference only;
\* doc.path.split("/")[1] is the second segment of a document's path.
FsReadPathsOutcome(st, inst, autoId, fail) ==
    LET ref == GetNestedCollectionReference(inst, Null, autoId)
    IN  IF ref.kind # "collection" THEN Throw(MsgTypeError)
        ELSE IF fail THEN Throw(MsgService)
        ELSE LET ids == ChildIds(st, ref.path)
             IN  Pair(TRUE, PList([i \in 1..Len(ids) |-> Append(ref.path, ids[i])[2]]))

FsReadPaths(inst, autoId, fail) ==
    /\ wrapper = "Firestore"
    /\ nestedPaths \in StorePathSet
    /\ FreshId(store, inst, autoId)
    /\ res' = Result("readPaths", inst, FsReadPathsOutcome(store, inst, autoId, fail))
    /\ UNCHANGED <<wrapper, nestedPaths, store, pending, rtVars, users, track>>

\* readAll(): each path is read through new Firestore(collectionName, path).
FsReadAllOutcome(st, inst, autoId, fail) ==
    LET paths == FsReadPathsOutcome(st, inst, autoId, fail)
    IN  IF paths.kind = "throw" THEN paths
        ELSE LET list == paths.payload.list
                 reads == [i \in 1..Len(list) |->
                             FsReadOutcome(st, FsInstance(list[i], << >>), autoId, fail)]
                 thrown == {i \in 1..Len(list) : reads[i].kind = "throw"}
                 last(path) == CHOOSE i \in 1..Len(list) :
                                  /\ list[i] = path
                                  /\ \A j \in 1..Len(list) : list[j] = path => j <= i
             IN  IF thrown # {}
                 THEN reads[CHOOSE i \in thrown : \A j \in thrown : i <= j]
                 ELSE Pair(TRUE, PMap([path \in {list[i] : i \in 1..Len(list)} |->
                                          reads[last(path)].payload]))

FsReadAll(inst, autoId, fail) ==
    /\ wrapper = "Firestore"
    /\ nestedPaths \in StorePathSet
    /\ FreshId(store, inst, autoId)
    /\ res' = Result("readAll", inst, FsReadAllOutcome(store, inst, autoId, fail))
    /\ UNCHANGED <<wrapper, nestedPaths, store, pending, rtVars, users, track>>

\* -------------------------------------------------------- RealTime wrapper

\* new RealTime(path): the instance's itemsRef.
RtInstance == [path |-> "items"]
\* The key the i-th push generates; keys enumerate in push order.
Key(i) == "k" \o ToString(i)
KeyIndexes == 1..MaxKeys

\* create without its check for undefined values.
HasUndefinedUnchecked(data) == FALSE

\* Object.values(data).some((value) => value === undefined)
HasUndefined(data) == \E f \in DOMAIN data : data[f] = Undefined

\* set(ref, data) throws on a value that contains undefined.
SetRejects(data) == \E f \in DOMAIN data : data[f] = Undefined

\* set(ref, data) and remove(ref) on the child at index k.
RtSet(db, k, data) == [i \in DOMAIN db \cup {k} |-> IF i = k THEN data ELSE db[i]]
RtRemove(db, k) == [i \in DOMAIN db \ {k} |-> db[i]]

\* { id: childSnapshot.key, ...childSnapshot.val() }
Item(key, val) == [f \in {"id"} \cup DOMAIN val |-> IF f \in DOMAIN val THEN val[f] ELSE key]

\* The items read() collects with snapshot.forEach, in key order.
RECURSIVE RtItems(_, _)
RtItems(db, k) ==
    IF k > MaxKeys THEN << >>
    ELSE (IF k \in DOMAIN db THEN <<Item(Key(k), db[k])>> ELSE << >>) \o RtItems(db, k + 1)

\* The completion of a create call, with the data it was called with.
RtCreateResult(data, out) == [op |-> "rt.create", inst |-> RtInstance, out |-> out, arg |-> data]

\* create(data)
RtCreate(data, fail) ==
    /\ wrapper = "RealTime"
    /\ UNCHANGED <<wrapper, nestedPaths, fsVars, users>>
    /\ IF HasUndefined(data)
       THEN /\ res' = RtCreateResult(data, Pair(FALSE, PMsg(MsgUndefined)))
            /\ UNCHANGED <<rt, nextKey, track>>
       ELSE /\ nextKey <= MaxKeys
            /\ nextKey' = nextKey + 1
            /\ IF SetRejects(data)
               THEN /\ res' = RtCreateResult(data, Pair(FALSE, PMsg(MsgSetUndefined)))
                    /\ UNCHANGED <<rt, track>>
               ELSE IF fail
               THEN /\ res' = RtCreateResult(data, Pair(FALSE, PMsg(MsgService)))
                    /\ UNCHANGED <<rt, track>>
               ELSE /\ rt' = RtSet(rt, nextKey, data)
                    /\ res' = RtCreateResult(data, Pair(TRUE, PId(Key(nextKey))))
                    /\ Follow([op |-> "rt.create", doc |-> <<Key(nextKey)>>, data |-> data],
                              <<Key(nextKey)>>)

\* read()
RtReadOutcome(db, fail) ==
    IF fail THEN Pair(FALSE, PMsg(MsgService)) ELSE Pair(TRUE, PList(RtItems(db, 1)))

RtRead(fail) ==
    /\ wrapper = "RealTime"
    /\ res' = Result("rt.read", RtInstance, RtReadOutcome(rt, fail))
    /\ UNCHANGED <<wrapper, nestedPaths, fsVars, rtVars, users, track>>

\* The store call of update(id, newData).
RtUpdateWrite(db, k, newData) == RtSet(db, k, newData)

\* update(id, newData), id being a key that push generated: set rejects a
\* value that contains undefined, and creates the child when it is absent.
RtUpdate(k, newData, fail) ==
    /\ wrapper = "RealTime"
    /\ k < nextKey
    /\ UNCHANGED <<wrapper, nestedPaths, fsVars, nextKey, users>>
    /\ IF SetRejects(newData)
       THEN /\ res' = Result("rt.update", RtInstance, Pair(FALSE, PMsg(MsgSetUndefined)))
            /\ UNCHANGED <<rt, track>>
       ELSE IF fail
       THEN /\ res' = Result("rt.update", RtInstance, Pair(FALSE, PMsg(MsgService)))
            /\ UNCHANGED <<rt, track>>
       ELSE /\ rt' = RtUpdateWrite(rt, k, newData)
            /\ res' = Result("rt.update", RtInstance, Pair(TRUE, PBool(TRUE)))
            /\ Follow([op |-> "rt.update", doc |-> <<Key(k)>>, data |-> newData,
                       had |-> k \in DOMAIN rt,
                       prev |-> IF k \in DOMAIN rt THEN rt[k] ELSE EmptyRecord],
                      <<Key(k)>>)

\* delete(id), id being a key that push generated.
RtDelete(k, fail) ==
    /\ wrapper = "RealTime"
    /\ k < nextKey
    /\ UNCHANGED <<wrapper, nestedPaths, fsVars, nextKey, users>>
    /\ IF fail
       THEN /\ res' = Result("rt.delete", RtInstance, Pair(FALSE, PMsg(MsgService)))
            /\ UNCHANGED <<rt, track>>
       ELSE /\ rt' = RtRemove(rt, k)
            /\ res' = Result("rt.delete", RtInstance, Pair(TRUE, PBool(TRUE)))
            /\ Touch(<<Key(k)>>)

\* -------------------------------------------------- Authentication wrapper

AuthInstance == [auth |-> "auth"]
Uid(i) == "u" \o ToString(i)
UserIndexes == 1..MaxUsers

\* A call completes; the authentication service's users become us.
AuthDone(op, us, out) ==
    /\ wrapper = "Authentication"
    /\ users' = us
    /\ res' = Result(op, AuthInstance, out)
    /\ UNCHANGED <<wrapper, nestedPaths, fsVars, rtVars, track>>

\* What the catch block of every method returns.
AuthCaught == Pair(FALSE, PMsg(MsgAuth))

\* createUser(userData)
AuthCreateUser(u, fail) ==
    IF fail \/ u \in users THEN AuthDone("auth.createUser", users, AuthCaught)
    ELSE AuthDone("auth.createUser", users \cup {u}, Pair(TRUE, PId(Uid(u))))

\* loginUser(email, password)
AuthLoginUser(u, fail) ==
    IF fail \/ u \notin users THEN AuthDone("auth.loginUser", users, AuthCaught)
    ELSE AuthDone("auth.loginUser", users, Pair(TRUE, PId(Uid(u))))

\* updateUser(uid, updateUserData)
AuthUpdateUser(u, fail) ==
    IF fail \/ u \notin users THEN AuthDone("auth.updateUser", users, AuthCaught)
    ELSE AuthDone("auth.updateUser", users, Pair(TRUE, [user |-> Uid(u)]))

\* getUser(uid)
AuthGetUser(u, fail) ==
    IF fail \/ u \notin users THEN AuthDone("auth.getUser", users, AuthCaught)
    ELSE AuthDone("auth.getUser", users, Pair(TRUE, [user |-> Uid(u)]))

\* deleteUser(uid)
AuthDeleteUser(u, fail) ==
    IF fail \/ u \notin users THEN AuthDone("auth.deleteUser", users, AuthCaught)
    ELSE AuthDone("auth.deleteUser", users \ {u}, Pair(TRUE, PId(Uid(u))))

\* createPhoneVerification(phoneNumber): returns the session cookie itself.
AuthCreatePhoneVerification(fail) ==
    IF fail THEN AuthDone("auth.createPhoneVerification", users, AuthCaught)
    ELSE AuthDone("auth.createPhoneVerification", users, Value([cookie |-> "cookie"]))

\* verifyPhoneVerification(verificationId, otp): returns the decoded claims.
AuthVerifyPhoneVerification(u, fail) ==
    IF fail \/ u \notin users THEN AuthDone("auth.verifyPhoneVerification", users, AuthCaught)
    ELSE AuthDone("auth.verifyPhoneVerification", users, Value([claims |-> Uid(u)]))

\* resetPassword(email): returns what sendPasswordResetEmail resolves to.
AuthResetPassword(fail) ==
    IF fail THEN AuthDone("auth.resetPassword", users, AuthCaught)
    ELSE AuthDone("auth.resetPassword", users, Value([undefined |-> TRUE]))

\* One element of the array getUsers returns: no Firestore class is in the
\* module's scope, so the inner try always ends in its catch.
UserEntry(u) == [uid |-> Uid(u), error |-> "No user data found"]
RECURSIVE UserEntries(_, _)
UserEntries(us, u) ==
    IF u > MaxUsers THEN << >>
    ELSE (IF u \in us THEN <<UserEntry(u)>> ELSE << >>) \o UserEntries(us, u + 1)

\* getUsers(): returns the array of users itself.
AuthGetUsers(fail) ==
    IF fail THEN AuthDone("auth.getUsers", users, AuthCaught)
    ELSE AuthDone("auth.getUsers", users, Value(PList(UserEntries(users, 1))))

\* ---------------------------------------------------------- specification

NoResult == Result("none", FsInstance(Null, << >>), Value(PNaN))

Wrappers == {"Firestore", "RealTime", "Authentication"}

\* The state after the construction of the instances of wrapper class w.
InitOf(w) ==
    /\ wrapper = w
    /\ nestedPaths \in (IF w = "Firestore" THEN NestedPathSet ELSE {<< >>})
    /\ store = << >>
    /\ pending = {}
    /\ rt = << >>
    /\ nextKey = 1
    /\ users = {}
    /\ res = NoResult
    /\ track = NoTrack

Init == \E w \in Wrappers : InitOf(w)

FsNext ==
    \/ \E inst \in FsInstances, withUid \in BOOLEAN, autoId \in IdSet :
          FsResolve(inst, withUid, autoId)
    \/ \E inst \in CreateInstances, data \in CreateData, autoId \in IdSet, fail \in BOOLEAN :
          FsCreateSet(inst, data, autoId, fail)
    \/ \E call \in pending, fail \in BOOLEAN : FsCreateLookup(call, fail)
    \/ \E inst \in FsInstances, autoId \in IdSet, fail \in BOOLEAN : FsRead(inst, autoId, fail)
    \/ \E inst \in FsInstances, data \in PatchData, autoId \in IdSet, fail \in BOOLEAN :
          FsUpdate(inst, data, autoId, fail)
    \/ \E inst \in FsInstances, autoId \in IdSet, fail \in BOOLEAN : FsDelete(inst, autoId, fail)
    \/ \E inst \in CreateInstances, autoId \in IdSet, fail \in BOOLEAN :
          FsReadPaths(inst, autoId, fail)
    \/ \E inst \in CreateInstances, autoId \in IdSet, fail \in BOOLEAN :
          FsReadAll(inst, autoId, fail)

RtNext ==
    \/ \E data \in RtData, fail \in BOOLEAN : RtCreate(data, fail)
    \/ \E fail \in BOOLEAN : RtRead(fail)
    \/ \E k \in KeyIndexes, newData \in RtData, fail \in BOOLEAN : RtUpdate(k, newData, fail)
    \/ \E k \in KeyIndexes, fail \in BOOLEAN : RtDelete(k, fail)

AuthNext ==
    \/ \E u \in UserIndexes, fail \in BOOLEAN : AuthCreateUser(u, fail)
    \/ \E u \in UserIndexes, fail \in BOOLEAN : AuthLoginUser(u, fail)
    \/ \E u \in UserIndexes, fail \in BOOLEAN : AuthUpdateUser(u, fail)
    \/ \E u \in UserIndexes, fail \in BOOLEAN : AuthGetUser(u, fail)
    \/ \E u \in UserIndexes, fail \in BOOLEAN : AuthDeleteUser(u, fail)
    \/ \E fail \in BOOLEAN : AuthCreatePhoneVerification(fail)
    \/ \E u \in UserIndexes, fail \in BOOLEAN : AuthVerifyPhoneVerification(u, fail)
    \/ \E fail \in BOOLEAN : AuthResetPassword(fail)
    \/ \E fail \in BOOLEAN : AuthGetUsers(fail)

Next == FsNext \/ RtNext \/ AuthNext

\* The three wrappers.
Spec == Init /\ [][Next]_vars
\* The Firestore wrapper alone.
SpecFirestore == InitOf("Firestore") /\ [][FsNext]_vars
\* The RealTime wrapper alone.
SpecRealTime == InitOf("RealTime") /\ [][RtNext]_vars
\* The Authentication wrapper alone.
SpecAuthentication == InitOf("Authentication") /\ [][AuthNext]_vars

\* ------------------------------------------------------------------ claims

\* The public asynchronous operations of the three wrappers.
AsyncOps ==
    {"create", "read", "update", "delete", "readPaths", "readAll",
     "rt.create", "rt.read", "rt.update", "rt.delete",
     "auth.createUser", "auth.loginUser", "auth.updateUser", "auth.getUser",
     "auth.deleteUser", "auth.createPhoneVerification",
     "auth.verifyPhoneVerification", "auth.resetPassword", "auth.getUsers"}
\* The exceptions the external collaborator raises during a call.
CollaboratorMsgs == {MsgService, MsgNotFound}
\* The last completed call is a read of the document the tracked write
\* addressed, and the store answered it.
FollowUpRead(op) ==
    /\ res.op = "read"
    /\ track.op = op
    /\ res.inst = track.inst
    /\ res.out # Throw(MsgService)

\* C1: every public asynchronous operation completes, whatever the service
\* call did, with a two-element outcome [boolean, payload].
C1_UniformOutcome ==
    res.op \in AsyncOps => res.out.kind = "pair" /\ res.out.ok \in BOOLEAN

\* C2: an exception the external collaborator raises during a call never
\* propagates to the caller of a public operation: the call completes with
\* [false, message].
C2_NoPropagation ==
    res.op \in AsyncOps =>
        /\ res.out.kind = "throw" => res.out.msg \notin CollaboratorMsgs
        /\ (res.out.kind = "pair" /\ ~res.out.ok) => DOMAIN res.out.payload = {"msg"}

\* C3: after create(record) returned [true, id], a read() of that id under
\* the same collection and nested path, with no write to that id in between,
\* returns [true, record].
C3_RoundTrip ==
    FollowUpRead("create") => res.out = Pair(TRUE, PRec(track.data))

\* C3 witness: such a read of a created document of a nested collection.
C3_Witness ==
    /\ FollowUpRead("create")
    /\ Len(nestedPaths) > 0
    /\ "b" \in DOMAIN track.data

\* C4: after delete succeeded on an id, a read of that id, with no create or
\* update of it in between, returns [false, "Document does not exist"].
C4_DeleteThenRead ==
    FollowUpRead("delete") => res.out = Pair(FALSE, PMsg(MsgNotExist))

\* C4 witness: such a read of a document that existed when it was deleted.
C4_Witness ==
    /\ FollowUpRead("delete")
    /\ track.had

\* C5: after update(id, patch) succeeded, a read of id returns a record
\* that has the patch's value in every field of the patch; under
\* Firestore.update the other fields of the stored record keep their values,
\* and under RealTime.update (a set) they are removed.
C5_UpdateThenRead ==
    /\ FollowUpRead("update") =>
          /\ res.out.kind = "pair"
          /\ res.out.ok
          /\ LET r == res.out.payload.rec
             IN  /\ DOMAIN r = DOMAIN track.prev \cup DOMAIN track.data
                 /\ \A f \in DOMAIN track.data : r[f] = track.data[f]
                 /\ \A f \in DOMAIN track.prev \ DOMAIN track.data : r[f] = track.prev[f]
    /\ (res.op = "rt.read" /\ track.op = "rt.update" /\ res.out.ok) =>
          LET list == res.out.payload.list
              key == track.doc[1]
              found == {i \in 1..Len(list) : list[i]["id"] = key}
          IN  /\ Cardinality(found) = 1
              /\ \A i \in found :
                    /\ DOMAIN list[i] = {"id"} \cup DOMAIN track.data
                    /\ \A f \in DOMAIN track.data : list[i][f] = track.data[f]
                    /\ \A f \in DOMAIN track.prev \ DOMAIN track.data : f \notin DOMAIN list[i]

\* C5 witness: a read after an update whose patch leaves a stored field out.
C5_Witness ==
    /\ FollowUpRead("update")
    /\ DOMAIN track.prev \ DOMAIN track.data # {}

\* C6: for an even-length nested path [d1, s1, ..., dk, sk] and a target id
\* t, getNestedCollectionReference(t) is the document reference
\* <collection>/d1/s1/.../dk/sk/t.
C6_EvenResolve ==
    (/\ res.op = "resolve"
     /\ Len(res.inst.nestedPaths) % 2 = 0
     /\ res.inst.uid # Null) =>
        res.out = Value(PRef(DocRef(<<CollectionName>> \o res.inst.nestedPaths
                                                     \o <<res.inst.uid>>)))

\* C6 witness: a target id resolved under two document/sub-collection pairs.
C6_Witness ==
    /\ res.op = "resolve"
    /\ Len(res.inst.nestedPaths) = 4
    /\ res.inst.uid # Null
    /\ res.out.kind = "value"

\* C7: for an odd-length nested path, getNestedCollectionReference raises no
\* error, with or without a target id, and resolves to a reference under
\* the document named by the complete pairs and the final unpaired segment.
C7_OddResolve ==
    (/\ res.op = "resolve"
     /\ Len(res.inst.nestedPaths) % 2 = 1) =>
        /\ res.out.kind = "value"
        /\ LET path == res.out.payload.ref.path
               want == <<CollectionName>> \o res.inst.nestedPaths
           IN  /\ Len(path) >= Len(want)
               /\ SubSeq(path, 1, Len(want)) = want

C9_ReadPathsAll ==
    [][(/\ res'.op \in {"readPaths", "readAll"}
        /\ Len(nestedPaths) % 2 = 0
        /\ store' = store
        /\ res'.out # Throw(MsgService)) =>
           LET col == <<CollectionName>> \o nestedPaths
               ids == ChildIds(store, col)
               child(id) == FsReadOutcome(store, FsInstance(id, nestedPaths), Null, FALSE)
           IN  /\ res'.out.kind = "pair"
               /\ res'.out.ok
               /\ res'.op = "readPaths" => res'.out.payload = PList(ids)
               /\ res'.op = "readAll" =>
                     /\ DOMAIN res'.out.payload = {"map"}
                     /\ DOMAIN res'.out.payload.map = {ids[i] : i \in 1..Len(ids)}
                     /\ \A id \in DOMAIN res'.out.payload.map :
                           res'.out.payload.map[id] = child(id).payload]_vars

\* C10: RealTime.create(data) with an undefined top-level field returns
\* [false, "Data contains undefined values"] and pushes and sets nothing;
\* otherwise, when set succeeds, it returns [true, key], key being the new
\* child's key, and a later read() lists the item {id: key, ...data}.
C10_RtCreate ==
    /\ [][res'.op = "rt.create" =>
            IF \E f \in DOMAIN res'.arg : res'.arg[f] = Undefined
            THEN /\ res'.out = Pair(FALSE, PMsg(MsgUndefined))
                 /\ rt' = rt
                 /\ nextKey' = nextKey
            ELSE (res' # res /\ res'.out.ok) =>
                    /\ res'.out.payload = PId(Key(nextKey))
                    /\ nextKey \notin DOMAIN rt
                    /\ DOMAIN rt' = DOMAIN rt \cup {nextKey}
                    /\ rt'[nextKey] = res'.arg]_vars
    /\ []((res.op = "rt.read" /\ track.op = "rt.create" /\ res.out.ok) =>
            \E i \in 1..Len(res.out.payload.list) :
                res.out.payload.list[i] = Item(track.doc[1], track.data))

\* C10 witness: a read that lists an item created after another one.
C10_Witness ==
    /\ res.op = "rt.read"
    /\ track.op = "rt.create"
    /\ res.out.ok
    /\ Len(res.out.payload.list) > 1

====
